---- MODULE Spec2Model ----
(***************************************************************************)
(* Model of ultrahonk-soroban-verifier/src/field.rs: the Fr wrapper around *)
(* the BN254 scalar field (hex / byte construction, canonical encoding,    *)
(* pow) and the Montgomery batch inversion batch_inverse.                  *)
(*                                                                         *)
(* The field prime is scaled down to a small prime so that TLC can         *)
(* enumerate field elements; every width of the code (32-byte encodings,   *)
(* 4 limbs of 8 bytes, 64/128-bit exponents) is kept.  Wide integers are   *)
(* never built as TLA+ integers: byte strings are reduced with Horner's    *)
(* rule and exponents are sets of set-bit positions.                       *)
(*                                                                         *)
(* Arrays and slices are functions over 0..len-1, as in the source.        *)
(* Strings are sequences of one-character strings.                         *)
(***************************************************************************)
EXTENDS Integers, Sequences, FiniteSets

VARIABLES pc, vals, out, out0, i, inv_acc, ret, invCount, mulCount, last,
          pow_res, pow_bits

vars == <<pc, vals, out, out0, i, inv_acc, ret, invCount, mulCount, last,
          pow_res, pow_bits>>

batchVars == <<vals, out, out0, i, inv_acc, ret, invCount, mulCount>>

powVars == <<pow_res, pow_bits>>

\* ------------------------------------------------------------------ bounds

\* longest vals / out slice handed to batch_inverse
MaxLen == 3

\* longest enumerated body of a hex string (long strings are added apart)
MaxDigits == 3

\* ------------------------------------------------- widths and the modulus

\* stand-in for the BN254 scalar field order (a prime wider than one byte,
\* whose p-1 is not a power of two)
Modulus == 263

\* width of the canonical encoding, in bytes
FrBytes == 32

\* BigInteger256 is [u64; 4]
NumLimbs == 4

\* bytes of one u64 limb
LimbBytes == 8

\* bits of one u64 limb
LimbBits == 64

\* bits of the u128 exponent of pow
ExpBits == 128

\* marks a local that has not been assigned yet
NoVal == -1

FrSet == 0..(Modulus - 1)

Len0(f) == Cardinality(DOMAIN f)

EmptyArr == [k \in {} |-> 0]

\* ------------------------------------------------------- field primitives

Zero == 0

One == 1

IsZero(x) == x = Zero

Mul(x, y) == (x * y) % Modulus

\* Option<Fr>: None is NoVal
Inverse(x) ==
  IF IsZero(x) THEN NoVal
  ELSE CHOOSE y \in FrSet : (x * y) % Modulus = 1

FromU64(x) == x % Modulus

\* ------------------------------------------------------------ hex strings

HexLower == <<"0","1","2","3","4","5","6","7","8","9","a","b","c","d","e","f">>

HexUpper == <<"0","1","2","3","4","5","6","7","8","9","A","B","C","D","E","F">>

IsHexChar(c) == \E v \in 1..16 : HexLower[v] = c \/ HexUpper[v] = c

HexVal(c) == (CHOOSE v \in 1..16 : HexLower[v] = c \/ HexUpper[v] = c) - 1

\* variant: the prefix is not stripped at all
TrimStartNone(s) == s

\* str::trim_start_matches("0x"): strips the pattern repeatedly
RECURSIVE TrimStartMatches0x(_)
TrimStartMatches0x(s) ==
  IF Len(s) >= 2 /\ s[1] = "0" /\ s[2] = "x"
  THEN TrimStartMatches0x(SubSeq(s, 3, Len(s)))
  ELSE s

\* variant: an odd digit count is padded at the end instead of the front
normalize_hex_pad_right(s) ==
  LET raw == TrimStartMatches0x(s)
  IN  IF Len(raw) % 2 = 1 THEN raw \o <<"0">> ELSE raw

normalize_hex(s) ==
  LET raw == TrimStartMatches0x(s)
  IN  IF Len(raw) % 2 = 1 THEN <<"0">> \o raw ELSE raw

\* hex::decode: Err on odd length or on a character that is no hex digit
HexDecode(h) ==
  IF Len(h) % 2 = 1 \/ (\E k \in 1..Len(h) : ~IsHexChar(h[k]))
  THEN [ok |-> FALSE, bytes |-> EmptyArr]
  ELSE [ok |-> TRUE,
        bytes |-> [k \in 0..(Len(h) \div 2 - 1) |->
                     16 * HexVal(h[2 * k + 1]) + HexVal(h[2 * k + 2])]]

\* -------------------------------------------------------- byte conversions

Reverse(a) == [k \in DOMAIN a |-> a[Len0(a) - 1 - k]]

\* PrimeField::from_le_bytes_mod_order: the little-endian integer mod p,
\* folded from the most significant byte down
RECURSIVE LeFold(_, _)
LeFold(le, k) ==
  IF k = Len0(le) THEN 0
  ELSE (LeFold(le, k + 1) * 256 + le[k]) % Modulus

from_le_bytes_mod_order(le) == LeFold(le, 0)

from_bytes(bytes) ==
  LET tmp == Reverse(bytes)
  IN  from_le_bytes_mod_order(tmp)

\* into_bigint: the residue as little-endian u64 limbs (Modulus < 2^64)
into_bigint(x) == [k \in 0..(NumLimbs - 1) |-> IF k = 0 THEN x ELSE 0]

RECURSIVE ShiftRightBytes(_, _)
ShiftRightBytes(v, k) ==
  IF k = 0 THEN v ELSE ShiftRightBytes(v \div 256, k - 1)

\* u64::to_be_bytes
to_be_bytes(limb) ==
  [j \in 0..(LimbBytes - 1) |-> ShiftRightBytes(limb, LimbBytes - 1 - j) % 256]

\* variant: the limbs are written in storage order (iter() without rev())
to_bytes_limbs_in_order(x) ==
  LET bi == into_bigint(x)
  IN  [j \in 0..(FrBytes - 1) |-> to_be_bytes(bi[j \div LimbBytes])[j % LimbBytes]]

to_bytes(x) ==
  LET bi  == into_bigint(x)
      rev == Reverse(bi)
  IN  [j \in 0..(FrBytes - 1) |-> to_be_bytes(rev[j \div LimbBytes])[j % LimbBytes]]

\* result of a call that may panic
OkFr(v) == [kind |-> "ok", val |-> v]

Panic == [kind |-> "panic", val |-> NoVal]

from_str(s) ==
  LET dec == HexDecode(normalize_hex(s))
  IN  IF ~dec.ok THEN Panic                       \* expect("hex decode failed")
      ELSE IF Len0(dec.bytes) > FrBytes THEN Panic \* 32 - len underflows / slice start out of range
      ELSE LET offset == FrBytes - Len0(dec.bytes)
               padded == [k \in 0..(FrBytes - 1) |->
                            IF k < offset THEN 0 ELSE dec.bytes[k - offset]]
           IN  OkFr(from_bytes(padded))

\* ------------------------------------------------------------------- pow

\* `exp as u64`: an exponent is the set of its set-bit positions
AsU64(exp) == {k \in exp : k < LimbBits}

\* bits[0] = exp as u64, the other three limbs stay zero
PowLimbs(exp) == [k \in 0..(NumLimbs - 1) |-> IF k = 0 THEN AsU64(exp) ELSE {}]

LimbBit(limbs, k) == (k % LimbBits) \in limbs[k \div LimbBits]

\* BitIteratorBE::without_leading_zeros: how many bits are left to consume
\* once the leading zero bits are skipped (0 when every limb is zero)
BitsToConsume(limbs) ==
  LET set == {k \in 0..(NumLimbs * LimbBits - 1) : LimbBit(limbs, k)}
  IN  IF set = {} THEN 0
      ELSE (CHOOSE t \in set : \A u \in set : u <= t) + 1

\* body of Field::pow's loop for one bit: res.square_in_place(); if bit { res *= self }
PowBitStep(res, x, bit) ==
  IF bit THEN Mul(Mul(res, res), x) ELSE Mul(res, res)

\* ------------------------------------------------------------ input sets

\* field elements handed to batch_inverse and pow
FrSample == {0, 1, 2, 131, 262}

\* what the caller's out buffer may hold before the call
OutSample == {0, 7}

Arrays(S, n) == [0..(n - 1) -> S]

\* characters of the enumerated string bodies ("z" is no hex digit)
CharSample == {"0", "1", "a", "F", "z"}

Prefixes == { <<>>, <<"0", "x">>, <<"0", "X">>, <<"0", "x", "0", "x">> }

Repeat(c, n) == [k \in 1..n |-> c]

ShortBodies == UNION { [1..n -> CharSample] : n \in 0..MaxDigits }

\* 63 and 64 digits fit 32 bytes, 65 and 66 digits decode to 33 bytes
LongBodies == { Repeat(c, n) : c \in {"1", "f"}, n \in {63, 64, 65, 66} }

StrInputs == { p \o b : p \in Prefixes, b \in ShortBodies \cup LongBodies }

\* 32-byte inputs: the three low bytes and the top byte vary
ByteInputs ==
  { [k \in 0..(FrBytes - 1) |->
       IF k = 0 THEN b0 ELSE IF k = 29 THEN b29
       ELSE IF k = 30 THEN b30 ELSE IF k = 31 THEN b31 ELSE 0] :
    b0 \in {0, 1, 255}, b29 \in {0, 1}, b30 \in {0, 1, 2, 255},
    b31 \in {0, 1, 6, 7, 8, 255} }

\* exponents: every subset of these bit positions of the u128
ExpBitSample == {0, 1, 2, LimbBits - 1, LimbBits, LimbBits + 1, ExpBits - 1}

ExpInputs == SUBSET ExpBitSample

U64Sample == {0, 1, 5, 7, 262, 263, 264}

\* --------------------------------------------------------------- the state
\* One call of the library is followed from its entry to its return: the
\* functions are pure and keep nothing between calls.  pc is the position
\* inside batch_inverse; last records the call and, for the methods of Fr,
\* its result.

NoCall == [op |-> "none"]

Init ==
  /\ pc = "ready"
  /\ vals = EmptyArr
  /\ out = EmptyArr
  /\ out0 = EmptyArr
  /\ i = 0
  /\ inv_acc = NoVal
  /\ ret = "none"
  /\ invCount = 0
  /\ mulCount = 0
  /\ last = NoCall
  /\ pow_res = NoVal
  /\ pow_bits = 0

\* ---------------------------------------------------- calls of Fr's methods

CallFromStr ==
  /\ pc = "ready"
  /\ \E s \in StrInputs :
       last' = [op |-> "from_str", arg |-> s, res |-> from_str(s)]
  /\ pc' = "done"
  /\ UNCHANGED <<batchVars, powVars>>

CallFromBytes ==
  /\ pc = "ready"
  /\ \E b \in ByteInputs :
       last' = [op |-> "from_bytes", arg |-> b, res |-> from_bytes(b)]
  /\ pc' = "done"
  /\ UNCHANGED <<batchVars, powVars>>

CallToBytes ==
  /\ pc = "ready"
  /\ \E x \in FrSet :
       last' = [op |-> "to_bytes", arg |-> x, res |-> to_bytes(x)]
  /\ pc' = "done"
  /\ UNCHANGED <<batchVars, powVars>>

CallFromU64 ==
  /\ pc = "ready"
  /\ \E x \in U64Sample :
       last' = [op |-> "from_u64", arg |-> x, res |-> FromU64(x)]
  /\ pc' = "done"
  /\ UNCHANGED <<batchVars, powVars>>

\* Fr::pow, entry: bits = [exp as u64, 0, 0, 0]; res = one
PowEnter ==
  /\ pc = "ready"
  /\ \E x \in FrSample, e \in ExpInputs :
       /\ last' = [op |-> "pow", arg |-> x, exp |-> e, res |-> NoVal]
       /\ pow_bits' = BitsToConsume(PowLimbs(e))
  /\ pow_res' = One
  /\ pc' = "pow"
  /\ UNCHANGED batchVars

\* one iteration of Field::pow's loop over the bits of `bits`
PowStep ==
  /\ pc = "pow"
  /\ pow_bits > 0
  /\ pow_res' = PowBitStep(pow_res, last.arg, LimbBit(PowLimbs(last.exp), pow_bits - 1))
  /\ pow_bits' = pow_bits - 1
  /\ UNCHANGED <<pc, last, batchVars>>

\* Fr(self.0.pow(bits))
PowReturn ==
  /\ pc = "pow"
  /\ pow_bits = 0
  /\ last' = [last EXCEPT !.res = pow_res]
  /\ pc' = "done"
  /\ UNCHANGED <<batchVars, powVars>>

\* ----------------------------------------------------------- batch_inverse

\* entry: the length assertion, the n == 0 return, and out[0] = vals[0]
BatchEnter ==
  /\ pc = "ready"
  /\ \E n \in 0..MaxLen, m \in 0..MaxLen :
       \E v \in Arrays(FrSample, n), o \in Arrays(OutSample, m) :
         /\ vals' = v
         /\ out0' = o
         /\ i' = IF n = m /\ n > 0 THEN 1 ELSE 0
         /\ IF n # m
            THEN /\ out' = o
                 /\ ret' = "panic"
                 /\ pc' = "done"
            ELSE IF n = 0
            THEN /\ out' = o
                 /\ ret' = "Ok"
                 /\ pc' = "done"
            ELSE /\ out' = [o EXCEPT ![0] = v[0]]
                 /\ ret' = "none"
                 /\ pc' = "prefix"
  /\ inv_acc' = NoVal
  /\ invCount' = 0
  /\ mulCount' = 0
  /\ last' = [op |-> "batch_inverse"]
  /\ UNCHANGED powVars

\* variant: the running product is restarted from vals[i - 1]
PrefixStepPairwise ==
  /\ pc = "prefix"
  /\ i < Len0(vals)
  /\ out' = [out EXCEPT ![i] = Mul(vals[i - 1], vals[i])]
  /\ mulCount' = mulCount + 1
  /\ i' = i + 1
  /\ UNCHANGED <<pc, vals, out0, inv_acc, ret, invCount, last, powVars>>

\* 1) one iteration of `for i in 1..n`
PrefixStep ==
  /\ pc = "prefix"
  /\ i < Len0(vals)
  /\ out' = [out EXCEPT ![i] = Mul(out[i - 1], vals[i])]
  /\ mulCount' = mulCount + 1
  /\ i' = i + 1
  /\ UNCHANGED <<pc, vals, out0, inv_acc, ret, invCount, last, powVars>>

\* variant: the last element is inverted instead of the total product
InvertLastElement ==
  /\ pc = "prefix"
  /\ i = Len0(vals)
  /\ invCount' = invCount + 1
  /\ LET inv == Inverse(vals[Len0(vals) - 1])
     IN  IF inv = NoVal
         THEN /\ ret' = "Err"
              /\ pc' = "done"
              /\ UNCHANGED <<inv_acc, i>>
         ELSE /\ inv_acc' = inv
              /\ i' = Len0(vals) - 1
              /\ pc' = "sweep"
              /\ UNCHANGED ret
  /\ UNCHANGED <<vals, out, out0, mulCount, last, powVars>>

\* 2) out[n - 1].inverse().ok_or(..)?
Invert ==
  /\ pc = "prefix"
  /\ i = Len0(vals)
  /\ invCount' = invCount + 1
  /\ LET inv == Inverse(out[Len0(vals) - 1])
     IN  IF inv = NoVal
         THEN /\ ret' = "Err"
              /\ pc' = "done"
              /\ UNCHANGED <<inv_acc, i>>
         ELSE /\ inv_acc' = inv
              /\ i' = Len0(vals) - 1
              /\ pc' = "sweep"
              /\ UNCHANGED ret
  /\ UNCHANGED <<vals, out, out0, mulCount, last, powVars>>

\* variant: inv_acc is advanced before out[i] is computed from it
SweepStepAccFirst ==
  /\ pc = "sweep"
  /\ i >= 1
  /\ inv_acc' = Mul(inv_acc, vals[i])
  /\ out' = [out EXCEPT ![i] = Mul(inv_acc', out[i - 1])]
  /\ mulCount' = mulCount + 2
  /\ i' = i - 1
  /\ UNCHANGED <<pc, vals, out0, ret, invCount, last, powVars>>

\* variant: every element is inverted on its own during the sweep
SweepStepInvertEach ==
  /\ pc = "sweep"
  /\ i >= 1
  /\ out' = [out EXCEPT ![i] = Inverse(vals[i])]
  /\ inv_acc' = Mul(inv_acc, vals[i])
  /\ invCount' = invCount + 1
  /\ mulCount' = mulCount + 1
  /\ i' = i - 1
  /\ UNCHANGED <<pc, vals, out0, ret, last, powVars>>

\* 3) one iteration of `for i in (1..n).rev()`
SweepStep ==
  /\ pc = "sweep"
  /\ i >= 1
  /\ out' = [out EXCEPT ![i] = Mul(inv_acc, out[i - 1])]
  /\ inv_acc' = Mul(inv_acc, vals[i])
  /\ mulCount' = mulCount + 2
  /\ i' = i - 1
  /\ UNCHANGED <<pc, vals, out0, ret, invCount, last, powVars>>

\* out[0] = inv_acc; Ok(())
Finish ==
  /\ pc = "sweep"
  /\ i = 0
  /\ out' = [out EXCEPT ![0] = inv_acc]
  /\ ret' = "Ok"
  /\ pc' = "done"
  /\ UNCHANGED <<vals, out0, i, inv_acc, invCount, mulCount, last, powVars>>

Next ==
  \/ CallFromStr
  \/ CallFromBytes
  \/ CallToBytes
  \/ CallFromU64
  \/ PowEnter
  \/ PowStep
  \/ PowReturn
  \/ BatchEnter
  \/ PrefixStep
  \/ Invert
  \/ SweepStep
  \/ Finish

Spec == Init /\ [][Next]_vars

TypeOK ==
  /\ pc \in {"ready", "prefix", "sweep", "pow", "done"}
  /\ ret \in {"none", "Ok", "Err", "panic"}

\* ------------------------------------------------- vocabulary of the claims

BatchReturned == pc = "done" /\ last.op = "batch_inverse"

N == Len0(vals)

SameLength == Len0(out0) = Len0(vals)

HasZero == \E k \in DOMAIN vals : vals[k] = 0

\* vals[0] * ... * vals[k], multiplied out from the left
RECURSIVE PrefixProduct(_, _)
PrefixProduct(v, k) ==
  IF k = 0 THEN v[0] ELSE (PrefixProduct(v, k - 1) * v[k]) % Modulus

Returned(op) == pc = "done" /\ last.op = op

AllHex(d) == \A k \in 1..Len(d) : IsHexChar(d[k])

HasPrefix(a, c) == Len(a) >= 2 /\ a[1] = "0" /\ a[2] = c

Body(a) == SubSeq(a, 3, Len(a))

\* the part of a after one optional 0x / 0X prefix
AfterPrefix(a) == IF HasPrefix(a, "x") \/ HasPrefix(a, "X") THEN Body(a) ELSE a

\* the digit string as a base-16 number, reduced digit by digit
RECURSIVE HexValueMod(_)
HexValueMod(d) ==
  IF Len(d) = 0 THEN 0
  ELSE (HexValueMod(SubSeq(d, 1, Len(d) - 1)) * 16 + HexVal(d[Len(d)])) % Modulus

\* the digit string as an integer (short strings only)
RECURSIVE HexValue(_)
HexValue(d) ==
  IF Len(d) = 0 THEN 0
  ELSE HexValue(SubSeq(d, 1, Len(d) - 1)) * 16 + HexVal(d[Len(d)])

\* 32-byte big-endian encoding of an integer below 2^24
EncodeBE(v) ==
  [k \in 0..(FrBytes - 1) |->
     IF k = 31 THEN v % 256
     ELSE IF k = 30 THEN (v \div 256) % 256
     ELSE IF k = 29 THEN (v \div 65536) % 256
     ELSE 0]

\* a < c as big-endian integers of the same width
BytesLess(a, c) ==
  \E k \in DOMAIN a : a[k] < c[k] /\ \A j \in DOMAIN a : j < k => a[j] = c[j]

PBytes == EncodeBE(Modulus)

\* 256^e mod p
RECURSIVE Weight(_)
Weight(e) == IF e = 0 THEN 1 ELSE (Weight(e - 1) * 256) % Modulus

\* value(b) mod p as the weighted sum of the bytes b[k..31]
RECURSIVE WeightedSum(_, _)
WeightedSum(b, k) ==
  IF k = FrBytes THEN 0
  ELSE (b[k] * Weight(FrBytes - 1 - k) + WeightedSum(b, k + 1)) % Modulus

\* 2^k mod (p - 1)
RECURSIVE TwoPowMod(_)
TwoPowMod(k) ==
  IF k = 0 THEN 1
  ELSE IF k % 2 = 1 THEN (2 * TwoPowMod(k - 1)) % (Modulus - 1)
  ELSE LET h == TwoPowMod(k \div 2) IN (h * h) % (Modulus - 1)

\* the exponent (a set of bit positions) mod (p - 1)
RECURSIVE ExpMod(_)
ExpMod(e) ==
  IF e = {} THEN 0
  ELSE LET k == CHOOSE t \in e : TRUE
       IN  (TwoPowMod(k) + ExpMod(e \ {k})) % (Modulus - 1)

\* x^n mod p for an integer n
RECURSIVE IntPow(_, _)
IntPow(x, n) ==
  IF n = 0 THEN 1
  ELSE LET h == IntPow(x, n \div 2)
       IN  IF n % 2 = 1 THEN (((h * h) % Modulus) * x) % Modulus
           ELSE (h * h) % Modulus

\* x^e mod p for the full exponent e: for x # 0, x^(p-1) = 1 (Fermat), so
\* the exponent may be reduced mod p - 1; 0^0 = 1 and 0^e = 0 for e > 0
PowRef(x, e) ==
  IF x = 0 THEN (IF e = {} THEN 1 ELSE 0)
  ELSE IntPow(x, ExpMod(e))

\* ------------------------------------------------------------------ claims

\* C1: for n >= 1 non-zero elements and an out buffer of the same length,
\* batch_inverse returns Ok and every out[k] satisfies out[k] * vals[k] = one
\* and equals vals[k].inverse() computed on its own.
C1_BatchInverseCorrect ==
  (BatchReturned /\ N >= 1 /\ SameLength /\ ~HasZero) =>
     /\ ret = "Ok"
     /\ \A k \in DOMAIN vals :
          /\ Mul(out[k], vals[k]) = One
          /\ out[k] = Inverse(vals[k])

C1_Witness ==
  /\ BatchReturned /\ ret = "Ok" /\ N >= 3
  /\ vals[0] # vals[1] /\ vals[1] # vals[2] /\ out[2] # 1

\* C2: with n >= 1, batch_inverse returns Err exactly when some element of
\* vals is zero, wherever the zero stands, and Ok when none is.
C2_ErrIffZero ==
  (BatchReturned /\ N >= 1 /\ SameLength) =>
     /\ (ret = "Err") <=> HasZero
     /\ ~HasZero => ret = "Ok"

C2_Witness ==
  /\ BatchReturned /\ ret = "Err" /\ N >= 3
  /\ vals[0] # 0 /\ vals[1] = 0 /\ vals[2] # 0

\* C3: when batch_inverse fails on a zero element, out holds after the call
\* exactly what it held before the call.
C3_FailureLeavesOut ==
  (BatchReturned /\ ret = "Err") => out = out0

\* C4: from_str on a string with a non-hex character after the prefix, or
\* with more than 64 digits, reports a structured decode error, no panic.
C4_DecodeErrorReported ==
  (Returned("from_str")
     /\ (~AllHex(AfterPrefix(last.arg)) \/ Len(AfterPrefix(last.arg)) > 2 * FrBytes))
  => last.res.kind = "err"

\* C5: x.pow(e) is x multiplied by itself e times mod p for every e of the
\* unsigned 128-bit range, exponents of 2^64 and more included.
C5_PowFullWidth ==
  Returned("pow") => last.res = PowRef(last.arg, last.exp)

C7_FromStrValue ==
  (Returned("from_str") /\ HasPrefix(last.arg, "x") /\ AllHex(Body(last.arg))
     /\ Len(Body(last.arg)) >= 1 /\ Len(Body(last.arg)) <= 2 * FrBytes)
  => LET d == Body(last.arg)
     IN  /\ last.res.kind = "ok"
         /\ last.res.val = HexValueMod(d)
         /\ Len(d) <= 5 => last.res.val = from_bytes(EncodeBE(HexValue(d)))
         /\ (Len(d) % 2 = 1 \/ Len(d) < 2 * FrBytes) =>
              from_str(<<"0", "x", "0">> \o d) = last.res
         /\ d = <<"1">> =>
              /\ from_str(<<"0", "x", "0", "1">>) = last.res
              /\ last.res.val = FromU64(1)

C7_Witness ==
  /\ Returned("from_str")
  /\ HasPrefix(last.arg, "x") /\ AllHex(Body(last.arg))
  /\ Len(Body(last.arg)) = 3 /\ last.arg[3] # "0"
  /\ last.res.kind = "ok" /\ last.res.val > 1

\* C8: from_bytes(b).to_bytes() is the canonical encoding of value(b) mod p:
\* b itself when value(b) < p, another string, below p, when value(b) >= p;
\* and from_bytes(x.to_bytes()) = x for every field element x.
C8_CanonicalRoundTrip ==
  /\ Returned("from_bytes") =>
       LET b == last.arg
           r == to_bytes(last.res)
       IN  /\ r = EncodeBE(WeightedSum(b, 0))
           /\ BytesLess(r, PBytes)
           /\ BytesLess(b, PBytes) => r = b
           /\ ~BytesLess(b, PBytes) => r # b
  /\ Returned("to_bytes") =>
       /\ last.res = EncodeBE(last.arg)
       /\ from_bytes(last.res) = last.arg

C8_Witness ==
  /\ Returned("from_bytes")
  /\ ~BytesLess(last.arg, PBytes) /\ last.arg[0] # 0
  /\ last.res > 255

\* C9: a successful call on n >= 1 elements makes exactly one inversion and
\* 3 * (n - 1) multiplications; no call makes more than one inversion and a
\* call with n = 0 makes none.
C9_OperationCounts ==
  /\ invCount <= 1
  /\ (BatchReturned /\ ret = "Ok" /\ N >= 1) =>
       invCount = 1 /\ mulCount = 3 * (N - 1)
  /\ (BatchReturned /\ N = 0) => invCount = 0

C9_Witness ==
  BatchReturned /\ ret = "Ok" /\ N >= 3 /\ invCount = 1 /\ mulCount = 3 * (N - 1)

\* C10: at the head of the backward sweep with index i, inv_acc is the
\* inverse of vals[0] * ... * vals[i], out[j] is still the prefix product for
\* j < i and already the inverse of vals[j] for j > i; after the last
\* iteration inv_acc is the inverse of vals[0], which out[0] receives.
C10_SweepInvariant ==
  /\ pc = "sweep" =>
       /\ inv_acc = Inverse(PrefixProduct(vals, i))
       /\ \A j \in DOMAIN vals : j < i => out[j] = PrefixProduct(vals, j)
       /\ \A j \in DOMAIN vals : j > i => out[j] = Inverse(vals[j])
  /\ (BatchReturned /\ ret = "Ok" /\ N >= 1) =>
       out[0] = inv_acc /\ inv_acc = Inverse(vals[0])

C10_Witness ==
  /\ pc = "sweep" /\ N >= 3 /\ i = 1
  /\ vals[0] # 1 /\ vals[1] # 1 /\ vals[2] # 1 /\ vals[0] # vals[1]

====
